---------------------------- MODULE Spec2Model ----------------------------
(***************************************************************************)
(* describedir: the description-generation pipeline.                      *)
(*                                                                         *)
(*   traversal.py  get_levels_bottom_up / walk_bottom_up  (the scheduler) *)
(*   llm.py        _call_llm, _describe_single_file, describe_files_batch, *)
(*                 _describe_batch_chunk, describe_directory               *)
(*   cli.py        main (the pipeline loop)                                *)
(*                                                                         *)
(* Three specifications share the variables:                               *)
(*   SpecWalk  walk_bottom_up on every tree of up to MaxWalkNodes nodes    *)
(*   SpecCall  one _call_llm invocation, request by request                *)
(*   Spec      main's pipeline on every tree of up to MaxNodes nodes       *)
(***************************************************************************)
EXTENDS Naturals, Sequences, FiniteSets

(***************************************************************************)
(* Bounds of the model.                                                    *)
(***************************************************************************)
\* nodes of a tree walked by SpecWalk
MaxWalkNodes == 5
\* nodes of a tree run through the pipeline by Spec
MaxNodes == 4
\* the largest max_retries argument SpecCall gives _call_llm
MaxRetriesArg == 3
\* the batch limit the pipeline runs with.  config.py sets
\* MAX_CHILDREN_PER_BATCH = 30; the model scales it down so that a directory
\* of MaxNodes - 1 files still needs more than one chunk
MAX_CHILDREN_PER_BATCH == 2
\* the sizes read_file_content works with.  config.py sets
\* MAX_FILE_SIZE_BYTES = 100_000 and TRUNCATED_READ_BYTES = 8_000; the model
\* scales both down and keeps their order
MAX_FILE_SIZE_BYTES == 4
TRUNCATED_READ_BYTES == 2
\* characters of a file read by SpecRead, and bytes of the UTF-8 encoding of
\* one character (up to 4 in UTF-8, scaled down)
MaxChars == 5
MaxCharBytes == 2
\* the largest --max-file-size SpecRead gives main
MaxSizeArg == 3

(***************************************************************************)
(* The tree (schema.py FileNode, as build_tree leaves it).                 *)
(* A tree is a record [n, parent, type, kind]: the nodes are 1..n, node 1  *)
(* is the root directory, parent[i] < i, and parents are non-decreasing    *)
(* (a breadth-first numbering: every ordered tree has exactly one).        *)
(* build_tree appends children in sorted(os.listdir) order; the numbering  *)
(* stands for that order, so a node's children are its child ids in        *)
(* increasing order, and a node's id stands for its (unique) path.         *)
(***************************************************************************)
NodeTypes == {"directory", "file"}

\* what the filesystem holds for a file (fileio.py reads it):
\*   text       decodable text, size <= MAX_FILE_SIZE_BYTES
\*   bigtext    decodable text, size >  MAX_FILE_SIZE_BYTES
\*   binary     binary MIME type or a null byte in the first 8192 bytes
\*   undecodable  not valid UTF-8 (no null byte)
\*   unopenable   open() fails with OSError
FileKinds == {"text", "bigtext", "binary", "undecodable", "unopenable"}

ParentMaps(n) ==
    { p \in [1..n -> 0..n] :
        /\ p[1] = 0
        /\ \A i \in 2..n : p[i] >= 1 /\ p[i] < i
        /\ \A i \in 2..n : \A j \in 2..n : i < j => p[i] <= p[j] }

TypeMaps(n, p) ==
    { t \in [1..n -> NodeTypes] :
        /\ t[1] = "directory"
        /\ \A i \in 2..n : t[p[i]] = "directory" }

KindMaps(n, t, kinds) ==
    { k \in [1..n -> kinds \cup {"dir"}] :
        \A i \in 1..n : (k[i] = "dir") <=> (t[i] = "directory") }

Trees(maxn, kinds) ==
    UNION { UNION { UNION { { [n |-> n, parent |-> p, type |-> t, kind |-> k]
                               : k \in KindMaps(n, t, kinds) }
                            : t \in TypeMaps(n, p) }
                    : p \in ParentMaps(n) }
            : n \in 1..maxn }

Nodes(t) == 1..t.n

RECURSIVE SortedSeq(_)
SortedSeq(S) ==
    IF S = {} THEN <<>>
    ELSE LET m == CHOOSE x \in S : \A y \in S : x <= y
         IN  <<m>> \o SortedSeq(S \ {m})

\* node.children: None for a file, the (possibly empty) list for a directory
Children(t, node) == SortedSeq({ i \in Nodes(t) : t.parent[i] = node })

RECURSIVE IsAncestor(_, _, _)
IsAncestor(t, a, b) ==
    /\ t.parent[b] # 0
    /\ (t.parent[b] = a \/ IsAncestor(t, a, t.parent[b]))

RECURSIVE Depth(_, _)
Depth(t, node) == IF t.parent[node] = 0 THEN 0 ELSE 1 + Depth(t, t.parent[node])

(***************************************************************************)
(* traversal.py: get_levels_bottom_up and walk_bottom_up.                  *)
(* levels is the defaultdict(list): a function from the depths that were   *)
(* touched to the list of directory nodes collected at that depth.         *)
(***************************************************************************)
LevelsGet(levels, d) == IF d \in DOMAIN levels THEN levels[d] ELSE <<>>

LevelsAppend(levels, d, node) ==
    [ k \in (DOMAIN levels) \cup {d} |->
        IF k = d THEN Append(LevelsGet(levels, d), node) ELSE levels[k] ]

RECURSIVE Collect(_, _, _, _)
RECURSIVE CollectAll(_, _, _, _)
\* _collect without its test of node.type: file nodes are collected too
CollectFiles(t, node, depth, levels) ==
    CollectAll(t, Children(t, node), depth + 1,
               LevelsAppend(levels, depth, node))

\* _collect(node, depth)
Collect(t, node, depth, levels) ==
    IF t.type[node] = "directory"
    THEN CollectAll(t, Children(t, node), depth + 1,
                    LevelsAppend(levels, depth, node))
    ELSE levels

\* for child in node.children: _collect(child, depth + 1)
CollectAll(t, kids, depth, levels) ==
    IF kids = <<>> THEN levels
    ELSE CollectAll(t, Tail(kids), depth, Collect(t, Head(kids), depth, levels))

MaxOf(S) == CHOOSE x \in S : \A y \in S : y <= x

RECURSIVE DownFrom(_)
DownFrom(d) == IF d = 0 THEN <<0>> ELSE <<d>> \o DownFrom(d - 1)

\* range(0, max_depth + 1): shallowest first
UpTo(d) == [ i \in 1..(d + 1) |-> i - 1 ]

\* range(max_depth, -1, -1)
LevelOrder(max_depth) == DownFrom(max_depth)

get_levels_bottom_up(t) ==
    LET levels == Collect(t, 1, 0, << >>)
    IN  IF DOMAIN levels = {} THEN <<>>
        ELSE LET ds == LevelOrder(MaxOf(DOMAIN levels))
             IN  [ i \in 1..Len(ds) |-> LevelsGet(levels, ds[i]) ]

RECURSIVE Flatten(_)
Flatten(ss) == IF ss = <<>> THEN <<>> ELSE Head(ss) \o Flatten(Tail(ss))

\* for level in get_levels_bottom_up(root_node): yield from level
walk_bottom_up(t) == Flatten(get_levels_bottom_up(t))


(***************************************************************************)
(* Python values.  A str is a sequence of tokens (each token a TLA+        *)
(* string): " " and "\n" are whitespace, "FENCE" is a code fence (three   *)
(* backquotes), "JSON" stands for the text of one JSON value, anything     *)
(* else is other text.                                                     *)
(* A value stored in a node field or in a parsed reply is a PyValue.       *)
(***************************************************************************)
Str(s) == [t |-> "str", s |-> s]
None == [t |-> "none", s |-> <<>>]
Int == [t |-> "int", s |-> <<>>]
True == [t |-> "bool", s |-> <<"True">>]
False == [t |-> "bool", s |-> <<"False">>]

Whitespace == {" ", "\n"}

RECURSIVE LStrip(_)
LStrip(s) ==
    IF s # <<>> /\ Head(s) \in Whitespace THEN LStrip(Tail(s)) ELSE s

RECURSIVE RStrip(_)
RStrip(s) ==
    IF s # <<>> /\ s[Len(s)] \in Whitespace
    THEN RStrip(SubSeq(s, 1, Len(s) - 1)) ELSE s

\* str.strip()
Strip(s) == RStrip(LStrip(s))

RECURSIVE Pow2(_)
Pow2(k) == IF k = 0 THEN 1 ELSE 2 * Pow2(k - 1)

(***************************************************************************)
(* llm.py: _call_llm.                                                      *)
(* One request to the model service ends in a reply (its message content)  *)
(* or in an exception of the openai package.  The classes the except      *)
(* clauses name are related as the package defines them: every one of      *)
(* RateLimitError, BadRequestError (a malformed request, HTTP 400),        *)
(* InternalServerError and APITimeoutError is a subclass of APIError.      *)
(***************************************************************************)
\* max_retries: int = 3
MAX_RETRIES == 3

ExcClasses == {"RateLimitError", "APITimeoutError", "BadRequestError"}

\* the errors the service design calls non-retryable
NonRetryable == {"BadRequestError"}

\* isinstance(e, APIError): the openai class hierarchy
IsAPIError(e) == e \in {"RateLimitError", "APITimeoutError",
                        "InternalServerError", "BadRequestError"}

Ok(content) == [kind |-> "ok", exc |-> "", content |-> content]
Exc(e) == [kind |-> "exc", exc |-> e, content |-> <<>>]

NoError == [type |-> "", msg |-> ""]
RuntimeError(msg) == [type |-> "RuntimeError", msg |-> msg]

\* the state of one invocation: attempt is the loop variable, requests the
\* outcomes of the requests issued so far, sleeps the time.sleep calls made
\* (the attempt that made each and its argument)
IdleCall(m) ==
    [max_retries |-> m, attempt |-> 0, requests |-> <<>>, sleeps |-> <<>>,
     status |-> "idle", value |-> <<>>, error |-> NoError]

\* the loop running once more than max_retries allows
LoopTestInclusive(c) ==
    IF c.attempt <= c.max_retries
    THEN [c EXCEPT !.status = "running"]
    ELSE [c EXCEPT !.status = "raised",
                   !.error = RuntimeError("Max retries exceeded")]

\* for attempt in range(max_retries): ... else fall out of the loop to
\* raise RuntimeError("Max retries exceeded for LLM call")
LoopTest(c) ==
    IF c.attempt < c.max_retries
    THEN [c EXCEPT !.status = "running"]
    ELSE [c EXCEPT !.status = "raised",
                   !.error = RuntimeError("Max retries exceeded")]

\* a wait that does not grow with the attempt
RateLimitWaitFlat(attempt) == 5

\* wait = 2**attempt * 5
RateLimitWait(attempt) == Pow2(attempt) * 5
\* time.sleep(2**attempt)
APIErrorWait(attempt) == Pow2(attempt)

Sleep(c, wait) ==
    [c EXCEPT !.sleeps = Append(@, [attempt |-> c.attempt, wait |-> wait])]

NextAttempt(c) == LoopTest([c EXCEPT !.attempt = @ + 1])

\* except RateLimitError: wait = 2**attempt * 5; time.sleep(wait)
OnRateLimit(c) == NextAttempt(Sleep(c, RateLimitWait(c.attempt)))

\* except (APIError, APITimeoutError) as e:
OnAPIError(c) ==
    IF c.attempt = c.max_retries - 1
    THEN [c EXCEPT !.status = "raised",
                   !.error = RuntimeError("API error after attempts")]
    ELSE NextAttempt(Sleep(c, APIErrorWait(c.attempt)))

\* an exception no except clause matches leaves the function as it is
Propagate(c, e) ==
    [c EXCEPT !.status = "raised", !.error = [type |-> e, msg |-> ""]]

\* the try statement: the first except clause whose class matches handles
HandleExc(c, e) ==
    IF e = "RateLimitError" THEN OnRateLimit(c)
    ELSE IF IsAPIError(e) \/ e = "APITimeoutError" THEN OnAPIError(c)
    ELSE Propagate(c, e)

\* one pass through the loop body, the request ending in outcome o
Attempt(c, o) ==
    LET c1 == [c EXCEPT !.requests = Append(@, o)]
    IN  IF o.kind = "ok"
        THEN [c1 EXCEPT !.status = "returned", !.value = Strip(o.content)]
        ELSE HandleExc(c1, o.exc)

\* a whole invocation against a service that answers the successive
\* requests with the outcomes of script
RECURSIVE RunCall(_, _)
RunCall(c, script) ==
    IF c.status = "idle" THEN RunCall(LoopTest(c), script)
    ELSE IF c.status # "running" \/ script = <<>> THEN c
    ELSE RunCall(Attempt(c, Head(script)), Tail(script))


(***************************************************************************)
(* State.                                                                  *)
(***************************************************************************)
VARIABLES
    tree,          \* the scanned tree (never written after the scan)
    pc,            \* where the program is
    order,         \* what walk_bottom_up yields, in order
    idx,           \* how many entries of order have been yielded
    call,          \* the _call_llm invocation SpecCall follows
    desc,          \* node -> description
    skipped,       \* node -> skipped
    skip_reason,   \* node -> skip_reason
    batchable,     \* describe_files_batch: the readable nodes, in order
    ci,            \* describe_files_batch: i, the start of the chunk (1-based)
    cj,            \* _describe_batch_chunk: position in the chunk's loop
    descriptions,  \* _describe_batch_chunk: the parsed reply
    calls,         \* the _call_llm invocations made for the current directory
    err,           \* the exception that left main, if any
    writes,        \* node -> where each assignment of its description came from
    args,          \* main: the parsed command line
    isdir,         \* main: os.path.isdir(root_path)
    api_key,       \* create_client: os.environ.get("OPENAI_API_KEY")
    client,        \* main: the client, once created
    exit_code,     \* main: the value returned
    output,        \* main: the document written or printed
    file,          \* SpecRead: the file read, character by character
    excerpt,       \* SpecRead: what read_file_content returned
    parts,         \* SpecRead: the prompt parts built from the excerpt
    changed_files, \* SpecWatch: dashboard.changed_files
    debounce_timer, \* SpecWatch: handler.debounce_timer (0 is None)
    timers,        \* SpecWatch: the threading.Timer threads started so far
    watcher        \* SpecWatch: the observer thread dispatching events

cliVars == <<args, isdir, api_key, client, exit_code, output>>

readVars == <<file, excerpt, parts>>

watchVars == <<changed_files, debounce_timer, timers, watcher>>

vars == <<tree, pc, order, idx, call, desc, skipped, skip_reason, batchable,
          ci, cj, descriptions, calls, err, writes, cliVars, readVars,
          watchVars>>

NoDescriptions == [j |-> "none", keys |-> {}, map |-> << >>]

\* build_tree: description="" on every node, skipped and skip_reason unset
ScannedFields(t) ==
    /\ desc = [i \in Nodes(t) |-> Str(<<>>)]
    /\ skipped = [i \in Nodes(t) |-> None]
    /\ skip_reason = [i \in Nodes(t) |-> None]
    /\ writes = [i \in Nodes(t) |-> <<>>]

NoBatch ==
    /\ batchable = <<>>
    /\ ci = 0
    /\ cj = 0
    /\ descriptions = NoDescriptions
    /\ calls = <<>>
    /\ err = NoError

SingleRoot ==
    [n |-> 1, parent |-> <<0>>, type |-> <<"directory">>, kind |-> <<"dir">>]

\* an Optional[int]
NoneInt == [none |-> TRUE, n |-> 0]
SomeInt(n) == [none |-> FALSE, n |-> n]

\* the value main returned, if it has returned
NotReturned == [returned |-> FALSE, code |-> 0]
Returned(c) == [returned |-> TRUE, code |-> c]

\* no document has been written or printed
NoOutput == [to |-> "none", tree |-> << >>]

\* parse_args on a command line without --dry-run and --max-file-size
DefaultArgs == [dry_run |-> FALSE, max_file_size |-> NoneInt]

\* main is not running (SpecWalk, SpecCall) or has just been entered
NoCli ==
    /\ client = None
    /\ exit_code = NotReturned
    /\ output = NoOutput

NoExcerpt == [read |-> FALSE, content |-> <<>>, was_truncated |-> FALSE]

NoRead ==
    /\ file = <<>>
    /\ excerpt = NoExcerpt
    /\ parts = <<>>

\* the observer thread between two events
IdleWatcher == [pc |-> "idle", handled |-> 0, src_path |-> ""]

\* no dashboard is running
NoWatch ==
    /\ changed_files = {}
    /\ debounce_timer = 0
    /\ timers = <<>>
    /\ watcher = IdleWatcher

(***************************************************************************)
(* SpecWalk: walk_bottom_up on a scanned tree, consumed entry by entry.    *)
(***************************************************************************)
InitWalk ==
    /\ tree \in Trees(MaxWalkNodes, {"text"})
    /\ pc = "walk"
    /\ order = <<>>
    /\ idx = 0
    /\ call = IdleCall(MAX_RETRIES)
    /\ ScannedFields(tree)
    /\ NoBatch
    /\ args = DefaultArgs
    /\ isdir = TRUE
    /\ api_key = None
    /\ NoCli
    /\ NoRead
    /\ NoWatch

\* the generator's first next(): get_levels_bottom_up runs to its end
WalkStart ==
    /\ pc = "walk"
    /\ order' = walk_bottom_up(tree)
    /\ pc' = "yield"
    /\ UNCHANGED <<watchVars, readVars, cliVars, writes,
                   tree, idx, call, desc, skipped, skip_reason, batchable,
                   ci, cj, descriptions, calls, err>>

\* yield from level: the next directory node
WalkYield ==
    /\ pc = "yield"
    /\ idx < Len(order)
    /\ idx' = idx + 1
    /\ UNCHANGED <<watchVars, readVars, cliVars, writes,
                   tree, pc, order, call, desc, skipped, skip_reason,
                   batchable, ci, cj, descriptions, calls, err>>

NextWalk == WalkStart \/ WalkYield

SpecWalk == InitWalk /\ [][NextWalk]_vars

(***************************************************************************)
(* SpecCall: one _call_llm invocation, one request at a time.              *)
(***************************************************************************)
\* message contents a reply to a free-text prompt may carry
TextReplies == { <<>>, <<" ">>, <<"text">>, <<" ", "text", "\n">> }

Outcomes(replies) ==
    { Ok(r) : r \in replies } \cup { Exc(e) : e \in ExcClasses }

InitCall ==
    /\ tree = SingleRoot
    /\ pc = "call"
    /\ order = <<>>
    /\ idx = 0
    /\ call \in { IdleCall(m) : m \in 0..MaxRetriesArg }
    /\ ScannedFields(tree)
    /\ NoBatch
    /\ args = DefaultArgs
    /\ isdir = TRUE
    /\ api_key = None
    /\ NoCli
    /\ NoRead
    /\ NoWatch

\* entering the for loop
CallEnter ==
    /\ pc = "call"
    /\ call.status = "idle"
    /\ call' = LoopTest(call)
    /\ UNCHANGED <<watchVars, readVars, cliVars, writes,
                   tree, pc, order, idx, desc, skipped, skip_reason,
                   batchable, ci, cj, descriptions, calls, err>>

\* client.chat.completions.create(...) and what follows it in the loop body
CallRequest ==
    /\ pc = "call"
    /\ call.status = "running"
    /\ \E o \in Outcomes(TextReplies) : call' = Attempt(call, o)
    /\ UNCHANGED <<watchVars, readVars, cliVars, writes,
                   tree, pc, order, idx, desc, skipped, skip_reason,
                   batchable, ci, cj, descriptions, calls, err>>

NextCall == CallEnter \/ CallRequest

SpecCall == InitCall /\ [][NextCall]_vars

(***************************************************************************)
(* fileio.py: is_binary_file and read_file_content, on what the            *)
(* filesystem holds for the file (the filesystem does not change during a  *)
(* run).                                                                   *)
(***************************************************************************)
\* True for a binary MIME type or a null byte in the sample; an OSError on
\* open is caught and answered True as well
is_binary_file(kind) == kind \in {"binary", "unopenable"}

\* (raises, was_truncated): was_truncated = size > max_bytes; the read
\* raises OSError or UnicodeDecodeError
read_file_content(kind) ==
    CASE kind = "unopenable"  -> [raises |-> "OSError", truncated |-> FALSE]
      [] kind = "undecodable" -> [raises |-> "UnicodeDecodeError",
                                  truncated |-> FALSE]
      [] kind = "bigtext"     -> [raises |-> "", truncated |-> TRUE]
      [] OTHER                -> [raises |-> "", truncated |-> FALSE]

\* A text file is the sequence of its characters, each given as the number
\* of bytes of its UTF-8 encoding.
RECURSIVE Bytes(_)
Bytes(chars) ==
    IF chars = <<>> THEN 0 ELSE Head(chars) + Bytes(Tail(chars))

\* os.path.getsize(filepath)
getsize(f) == Bytes(f)

\* f.read(read_size) on a file opened in text mode: at most read_size
\* characters
TextRead(f, read_size) ==
    SubSeq(f, 1, IF read_size <= Len(f) THEN read_size ELSE Len(f))

\* read_file_content(filepath, max_bytes, truncate_to) on a decodable file:
\* (content, was_truncated)
ReadFileContent(f, max_bytes, truncate_to) ==
    LET size == getsize(f)
        was_truncated == size > max_bytes
        read_size == IF was_truncated THEN truncate_to ELSE size
    IN  [read |-> TRUE, content |-> TextRead(f, read_size),
         was_truncated |-> was_truncated]

\* read_file_content(full_path), as describe_files_batch and
\* _describe_single_file call it: both sizes take their defaults
ReadWithDefaults(f) ==
    ReadFileContent(f, MAX_FILE_SIZE_BYTES, TRUNCATED_READ_BYTES)

BinaryPlaceholder == Str(<<"Binary file (<mime>).">>)
BatchReadErrorPlaceholder == Str(<<"Could not read file.">>)
SingleReadErrorPlaceholder == Str(<<"Could not read file: <exception>.">>)
EmptyDirectoryDescription == Str(<<"Empty directory.">>)

(***************************************************************************)
(* SpecRead: one decodable text file on its way from main through          *)
(* describe_files_batch into the prompts: the read for batchable, the      *)
(* block of the batch prompt, and the read and prompt of                   *)
(* _describe_single_file (a chunk of one, or a fallback).                  *)
(***************************************************************************)
\* the text files of up to n characters
RECURSIVE TextFiles(_)
TextFiles(n) ==
    IF n = 0 THEN { <<>> }
    ELSE TextFiles(n - 1) \cup
         { Append(f, w) : f \in { g \in TextFiles(n - 1) : Len(g) = n - 1 },
                          w \in 1..MaxCharBytes }

\* what parse_args may return for --max-file-size: the default None, or
\* the int given
ReadArgs ==
    { [dry_run |-> FALSE, max_file_size |-> m] :
        m \in {NoneInt} \cup { SomeInt(k) : k \in 0..MaxSizeArg } }

\* the root directory with the file as its only child
RootWithFile(f) ==
    [n |-> 2, parent |-> <<0, 1>>, type |-> <<"directory", "file">>,
     kind |-> <<"dir", IF getsize(f) > MAX_FILE_SIZE_BYTES
                       THEN "bigtext" ELSE "text">>]

InitRead ==
    /\ file \in TextFiles(MaxChars)
    /\ args \in ReadArgs
    /\ tree = RootWithFile(file)
    /\ pc = "describe_files_batch"
    /\ order = <<>>
    /\ idx = 0
    /\ call = IdleCall(MAX_RETRIES)
    /\ ScannedFields(tree)
    /\ NoBatch
    /\ isdir = TRUE
    /\ api_key = Str(<<"sk-key">>)
    /\ NoCli
    /\ excerpt = NoExcerpt
    /\ parts = <<>>
    /\ NoWatch

\* describe_files_batch: content, was_truncated = read_file_content(full_path)
ReadBatchable ==
    /\ pc = "describe_files_batch"
    /\ excerpt' = ReadWithDefaults(file)
    /\ pc' = "batchable"
    /\ UNCHANGED <<watchVars, file, parts, cliVars, writes,
                   tree, order, idx, call, desc, skipped, skip_reason,
                   batchable, ci, cj, descriptions, calls, err>>

\* _describe_batch_chunk: the file's block of the batch prompt
BuildBatchBlock ==
    /\ pc = "batchable"
    /\ parts' = Append(parts,
                        [kind |-> "batch",
                         trunc_note |-> IF excerpt.was_truncated
                                        THEN <<" [TRUNCATED]">> ELSE <<>>,
                         content |-> excerpt.content])
    /\ pc' = "batch_prompt"
    /\ UNCHANGED <<watchVars, file, excerpt, cliVars, writes,
                   tree, order, idx, call, desc, skipped, skip_reason,
                   batchable, ci, cj, descriptions, calls, err>>

\* _describe_single_file: the file is read again and its prompt built
BuildSinglePrompt ==
    /\ pc \in {"batchable", "batch_prompt"}
    /\ excerpt' = ReadWithDefaults(file)
    /\ parts' = Append(parts,
                        [kind |-> "single",
                         trunc_note |-> IF excerpt'.was_truncated
                                        THEN <<"[NOTE: This file was truncated.]">>
                                        ELSE <<>>,
                         content |-> excerpt'.content])
    /\ pc' = "single_prompt"
    /\ UNCHANGED <<watchVars, file, cliVars, writes,
                   tree, order, idx, call, desc, skipped, skip_reason,
                   batchable, ci, cj, descriptions, calls, err>>

NextRead == ReadBatchable \/ BuildBatchBlock \/ BuildSinglePrompt

SpecRead == InitRead /\ [][NextRead]_vars

(***************************************************************************)
(* The replies of the model service and json.loads.                        *)
(* A JSON value is [j, keys, map]: for a dict, keys are its keys (a path   *)
(* is the node's id) and map its values; for a list (a str), keys are the  *)
(* paths that are elements (substrings) of it.                             *)
(***************************************************************************)
EmptyMap == [k \in {} |-> None]

JDict(m) == [j |-> "dict", keys |-> DOMAIN m, map |-> m]
JList(S) == [j |-> "list", keys |-> S, map |-> EmptyMap]
JStr(S) == [j |-> "str", keys |-> S, map |-> EmptyMap]
JNull == [j |-> "null", keys |-> {}, map |-> EmptyMap]
JInt == [j |-> "int", keys |-> {}, map |-> EmptyMap]

\* the values a reply may give a path
ReplyValues == { Str(<<"text">>), Str(<<>>), None }

\* the JSON values a reply to the batch prompt for chunk may hold: a dict
\* over any subset of the chunk's paths, with or without one more key that
\* is no path of the chunk (the path of the directory, other), or a value
\* that is no dict
JsonValues(chunk, other) ==
    LET paths == { chunk[i] : i \in 1..Len(chunk) }
        dicts == UNION { [K -> ReplyValues] : K \in SUBSET paths }
        more  == { [k \in (DOMAIN m) \cup {other} |->
                      IF k = other THEN Str(<<"text">>) ELSE m[k]] : m \in dicts }
    IN  { JDict(m) : m \in dicts \cup more }
        \cup { JList({}), JList({chunk[1]}), JStr({}), JStr({chunk[1]}),
               JNull, JInt }

\* message contents of a reply to a batch prompt; "JSON" is the text of the
\* JSON value the reply holds
BatchReplies ==
    { <<"JSON">>,
      <<" ", "JSON", "\n">>,
      <<"FENCE", "json", "\n", "JSON", "\n", "FENCE">>,
      <<"FENCE", "\n", "JSON">>,
      <<"FENCE", "JSON", "FENCE">>,
      <<"text", "JSON">>,
      <<"text">>,
      <<>> }

StartsWith(s, tok) == s # <<>> /\ Head(s) = tok

IndexesOf(s, tok) == { i \in 1..Len(s) : s[i] = tok }

\* cleaned.split("\n", 1)[1]
SplitNewline1(s) ==
    LET at == IndexesOf(s, "\n")
    IN  IF at = {} THEN [raises |-> "IndexError", s |-> <<>>]
        ELSE LET i == CHOOSE x \in at : \A y \in at : x <= y
             IN  [raises |-> "", s |-> SubSeq(s, i + 1, Len(s))]

\* x.rsplit(FENCE, 1)[0]
RSplitFence0(s) ==
    LET at == IndexesOf(s, "FENCE")
    IN  IF at = {} THEN s
        ELSE LET i == CHOOSE x \in at : \A y \in at : y <= x
             IN  SubSeq(s, 1, i - 1)

\* json.loads(s), where the token "JSON" of s is the text of value v
json_loads(s, v) ==
    IF Strip(s) = <<"JSON">>
    THEN [raises |-> "", val |-> v]
    ELSE [raises |-> "JSONDecodeError", val |-> JNull]

\* the try block of _describe_batch_chunk
ParseReply(raw_response, v) ==
    LET cleaned == Strip(raw_response)
    IN  IF StartsWith(cleaned, "FENCE")
        THEN LET rest == SplitNewline1(cleaned)
             IN  IF rest.raises # ""
                 THEN [raises |-> rest.raises, val |-> JNull]
                 ELSE json_loads(RSplitFence0(rest.s), v)
        ELSE json_loads(cleaned, v)

\* node.path in descriptions: (raises, result)
Contains(d, path) ==
    IF d.j \in {"dict", "list", "str"}
    THEN [raises |-> "", result |-> path \in d.keys]
    ELSE [raises |-> "TypeError", result |-> FALSE]

\* the value of another key
SubscriptFirst(d, path) ==
    IF d.j = "dict"
    THEN [raises |-> "", val |-> d.map[CHOOSE k \in d.keys : \A x \in d.keys : k <= x]]
    ELSE [raises |-> "TypeError", val |-> None]

\* descriptions[node.path], after node.path in descriptions was True
Subscript(d, path) ==
    IF d.j = "dict"
    THEN [raises |-> "", val |-> d.map[path]]
    ELSE [raises |-> "TypeError", val |-> None]

(***************************************************************************)
(* A whole _call_llm invocation as the pipeline sees it: for every way     *)
(* the service may answer the successive requests, what the invocation     *)
(* ends in.                                                                *)
(***************************************************************************)
RECURSIVE ExcSeqs(_)
ExcSeqs(n) ==
    IF n = 0 THEN { <<>> }
    ELSE { Append(s, Exc(e)) : s \in ExcSeqs(n - 1), e \in ExcClasses }

Scripts(replies, m) ==
    UNION { { Append(s, Ok(r)) : s \in ExcSeqs(k), r \in replies }
            : k \in 0..(m - 1) }
    \cup ExcSeqs(m)

CallResults(replies) ==
    { [status |-> c.status, value |-> c.value, error |-> c.error] :
        c \in { RunCall(IdleCall(MAX_RETRIES), script) :
                  script \in Scripts(replies, MAX_RETRIES) } }

TextCallResults == CallResults(TextReplies)
BatchCallResults == CallResults(BatchReplies)

(***************************************************************************)
(* Spec: main's pipeline (cli.py, phase 3 and 4) with llm.py below it.     *)
(* pc: "main" -> "loop" -> ("chunk" -> ("fallback" | "assign") -> "chunk") *)
(*     -> "describe_dir" -> "loop" ... -> "done", or "crashed" when an     *)
(* exception leaves main.                                                  *)
(***************************************************************************)
Min(a, b) == IF a <= b THEN a ELSE b

FilterSeq(s, S) == SelectSeq(s, LAMBDA x : x \in S)

\* file_children = [c for c in (dir_node.children or []) if c.type == "file"]
FileChildren(t, d) == FilterSeq(Children(t, d), { i \in Nodes(t) : t.type[i] = "file" })

\* the first loop without its try statement around the read
ClassifyBinaryOnly(kind) ==
    IF is_binary_file(kind) THEN "binary_file" ELSE "batchable"

\* what the first loop of describe_files_batch does with a node
Classify(kind) ==
    IF is_binary_file(kind) THEN "binary_file"
    ELSE IF read_file_content(kind).raises \in {"UnicodeDecodeError", "OSError"}
         THEN "encoding_error"
         ELSE "batchable"

\* an entry of batchable: (node, content, was_truncated)
BatchItem(t, node) ==
    [node |-> node, truncated |-> read_file_content(t.kind[node]).truncated]

\* a slice one item too short
ChunkAtShort(b, i) == SubSeq(b, i, Min(i + MAX_CHILDREN_PER_BATCH - 2, Len(b)))

\* chunk = batchable[i : i + MAX_CHILDREN_PER_BATCH]
ChunkAt(b, i) == SubSeq(b, i, Min(i + MAX_CHILDREN_PER_BATCH - 1, Len(b)))

ChunkNodes(chunk) == [ i \in 1..Len(chunk) |-> chunk[i].node ]

\* the prompts: what they are built from
SinglePrompt(t, node) ==
    [kind |-> "single", target |-> node, items |-> << BatchItem(t, node) >>]
BatchPrompt(chunk) ==
    [kind |-> "batch", target |-> 0, items |-> chunk]
DirPrompt(t, d) ==
    [kind |-> "dir", target |-> d,
     items |-> [ i \in 1..Len(Children(t, d)) |->
                   [node |-> Children(t, d)[i], truncated |-> FALSE] ]]

IsText(v) == v.t = "str" /\ v.s # <<>>

\* the nodes the reply gives a non-empty text: the keys of a parsed dict
\* with such a value, the target of a free-text prompt answered with one
Filled(prompt, r, d) ==
    IF r.status # "returned" THEN {}
    ELSE IF prompt.kind = "batch"
         THEN { k \in d.keys : d.j = "dict" /\ IsText(d.map[k]) }
         ELSE IF r.value # <<>> THEN {prompt.target} ELSE {}

\* an entry of calls: the prompt of the invocation, how it ended, and for a
\* batch prompt what the try block made of the reply (the exception, or the
\* type of the parsed value and the paths it holds)
CallEntry(prompt, r, parsed) ==
    [prompt |-> prompt, status |-> r.status,
     parse_error |-> parsed.raises, j |-> parsed.val.j, keys |-> parsed.val.keys,
     filled |-> Filled(prompt, r, parsed.val)]

NotParsed == [raises |-> "", val |-> NoDescriptions]

\* an exception leaves main
Crash(e) ==
    /\ pc' = "crashed"
    /\ err' = e

\* _describe_single_file(client, node, ...), and then on to okpc
DescribeSingleFile(node, okpc) ==
    LET kind == tree.kind[node]
        read == read_file_content(kind)
    IN  IF is_binary_file(kind)
        THEN /\ desc' = [desc EXCEPT ![node] = BinaryPlaceholder]
             /\ skipped' = [skipped EXCEPT ![node] = True]
             /\ skip_reason' = [skip_reason EXCEPT ![node] = Str(<<"binary_file">>)]
             /\ writes' = [writes EXCEPT ![node] = Append(@, "placeholder")]
             /\ pc' = okpc
             /\ UNCHANGED <<calls, err>>
        ELSE IF read.raises \in {"UnicodeDecodeError", "OSError"}
        THEN /\ desc' = [desc EXCEPT ![node] = SingleReadErrorPlaceholder]
             /\ skipped' = [skipped EXCEPT ![node] = True]
             /\ skip_reason' = [skip_reason EXCEPT ![node] = Str(<<"encoding_error">>)]
             /\ writes' = [writes EXCEPT ![node] = Append(@, "placeholder")]
             /\ pc' = okpc
             /\ UNCHANGED <<calls, err>>
        ELSE \E r \in TextCallResults :
                /\ r.status # "running"
                /\ calls' = Append(calls, CallEntry(SinglePrompt(tree, node), r, NotParsed))
                /\ IF r.status = "returned"
                   THEN /\ desc' = [desc EXCEPT ![node] = Str(r.value)]
                        /\ skipped' = [skipped EXCEPT ![node] = False]
                        /\ writes' = [writes EXCEPT ![node] = Append(@, "model")]
                        /\ pc' = okpc
                        /\ UNCHANGED <<skip_reason, err>>
                   ELSE /\ Crash(r.error)
                        /\ UNCHANGED <<desc, skipped, skip_reason, writes>>

\* what parse_args may return: with or without --dry-run; the pipeline
\* runs without --max-file-size (SpecRead follows that option)
PipelineArgs == { [dry_run |-> d, max_file_size |-> NoneInt] : d \in BOOLEAN }

\* OPENAI_API_KEY after load_dotenv(): unset, empty or set
ApiKeys == { None, Str(<<>>), Str(<<"sk-key">>) }

\* root_path is no directory: nothing to scan
NoTree == [n |-> 0, parent |-> << >>, type |-> << >>, kind |-> << >>]

\* main is entered: the command line, the environment, and under root_path
\* the filesystem that build_tree will scan
Init ==
    /\ args \in PipelineArgs
    /\ isdir \in BOOLEAN
    /\ api_key \in ApiKeys
    /\ tree \in IF isdir THEN Trees(MaxNodes, FileKinds) ELSE {NoTree}
    /\ pc = "main"
    /\ order = <<>>
    /\ idx = 0
    /\ call = IdleCall(MAX_RETRIES)
    /\ ScannedFields(tree)
    /\ NoBatch
    /\ NoCli
    /\ NoRead
    /\ NoWatch

\* os.path.getsize of a file, as far as its kind tells: above
\* MAX_FILE_SIZE_BYTES for "bigtext", not above it otherwise
SizeBytes(kind) ==
    IF kind = "bigtext" THEN MAX_FILE_SIZE_BYTES + 1 ELSE TRUNCATED_READ_BYTES

\* FileNode.__dict__; a node's id stands for its name and its path, a child
\* for its own to_dict()
NodeFields(n) ==
    [ name        |-> [t |-> "str", id |-> n],
      type        |-> [t |-> "str", id |-> tree.type[n]],
      path        |-> [t |-> "str", id |-> n],
      description |-> desc[n],
      size_bytes  |-> IF tree.type[n] = "file"
                      THEN [t |-> "int", n |-> SizeBytes(tree.kind[n])]
                      ELSE None,
      skipped     |-> skipped[n],
      skip_reason |-> skip_reason[n],
      children    |-> IF tree.type[n] = "directory"
                      THEN [t |-> "list", items |-> Children(tree, n)]
                      ELSE None ]

\* FileNode.to_dict: every field whose value is not None
to_dict(n) ==
    LET d == NodeFields(n)
        present == { k \in DOMAIN d : d[k].t # "none" }
    IN  [ k \in present |-> d[k] ]

\* DescriptionOutput(...).to_json(), printed or written to the output path
Document(to) == [to |-> to, tree |-> [ n \in Nodes(tree) |-> to_dict(n) ]]

\* the test for a directory, returning 0
MainNotADirectoryZero ==
    /\ pc = "main"
    /\ ~isdir
    /\ exit_code' = Returned(0)
    /\ pc' = "exited"
    /\ UNCHANGED <<watchVars, readVars, args, isdir, api_key, client, output, writes,
                   tree, order, idx, call, desc, skipped, skip_reason,
                   batchable, ci, cj, descriptions, calls, err>>

\* if not os.path.isdir(root_path): return 1
MainNotADirectory ==
    /\ pc = "main"
    /\ ~isdir
    /\ exit_code' = Returned(1)
    /\ pc' = "exited"
    /\ UNCHANGED <<watchVars, readVars, args, isdir, api_key, client, output, writes,
                   tree, order, idx, call, desc, skipped, skip_reason,
                   batchable, ci, cj, descriptions, calls, err>>

\* phase 1: tree = build_tree(root_path, ignore_patterns)
MainBuildTree ==
    /\ pc = "main"
    /\ isdir
    /\ pc' = "scanned"
    /\ UNCHANGED <<watchVars, readVars, cliVars, writes,
                   tree, order, idx, call, desc, skipped, skip_reason,
                   batchable, ci, cj, descriptions, calls, err>>

\* the preview placed after phase 2: the client is created first
MainDryRunWithClient ==
    /\ pc = "scanned"
    /\ args.dry_run
    /\ client' = Str(<<"OpenAI">>)
    /\ output' = Document("stdout")
    /\ exit_code' = Returned(0)
    /\ pc' = "exited"
    /\ UNCHANGED <<watchVars, readVars, args, isdir, api_key, writes,
                   tree, order, idx, call, desc, skipped, skip_reason,
                   batchable, ci, cj, descriptions, calls, err>>

\* if args.dry_run: print(output.to_json()); return 0
MainDryRun ==
    /\ pc = "scanned"
    /\ args.dry_run
    /\ output' = Document("stdout")
    /\ exit_code' = Returned(0)
    /\ pc' = "exited"
    /\ UNCHANGED <<watchVars, readVars, args, isdir, api_key, client, writes,
                   tree, order, idx, call, desc, skipped, skip_reason,
                   batchable, ci, cj, descriptions, calls, err>>

\* if not api_key: raise EnvironmentError(...)
Truthy(v) == v.t # "none" /\ v.s # <<>>

\* phase 2 with create_client raising: except EnvironmentError: return 1
MainNoCredentials ==
    /\ pc = "scanned"
    /\ ~args.dry_run
    /\ ~Truthy(api_key)
    /\ exit_code' = Returned(1)
    /\ pc' = "exited"
    /\ UNCHANGED <<watchVars, readVars, args, isdir, api_key, client, output, writes,
                   tree, order, idx, call, desc, skipped, skip_reason,
                   batchable, ci, cj, descriptions, calls, err>>

\* phase 2: client = create_client()
MainCreateClient ==
    /\ pc = "scanned"
    /\ ~args.dry_run
    /\ Truthy(api_key)
    /\ client' = Str(<<"OpenAI">>)
    /\ pc' = "client"
    /\ UNCHANGED <<watchVars, readVars, args, isdir, api_key, exit_code, output, writes,
                   tree, order, idx, call, desc, skipped, skip_reason,
                   batchable, ci, cj, descriptions, calls, err>>

\* for dir_node in walk_bottom_up(tree): the generator is created
MainStart ==
    /\ pc = "client"
    /\ order' = walk_bottom_up(tree)
    /\ idx' = 0
    /\ pc' = "loop"
    /\ UNCHANGED <<watchVars, readVars, cliVars, writes,
                   tree, call, desc, skipped, skip_reason, batchable, ci, cj,
                   descriptions, calls, err>>

\* the next dir_node, with file_children assigned to dir_node.children:
\* the subdirectories drop out of the children list
MainNextDirInPlace ==
    /\ pc = "loop"
    /\ idx < Len(order)
    /\ idx' = idx + 1
    /\ tree' = [tree EXCEPT !.parent =
                   [ c \in DOMAIN tree.parent |->
                       IF tree.parent[c] = order[idx + 1] /\ tree.type[c] = "directory"
                       THEN 0 ELSE tree.parent[c] ]]
    /\ pc' = "describe_dir"
    /\ UNCHANGED <<watchVars, readVars, cliVars, writes, order, call, desc, skipped,
                   skip_reason, batchable, ci, cj, descriptions, calls, err>>

\* the next dir_node; describe_files_batch on its file children up to the
\* chunk loop
MainNextDir ==
    /\ pc = "loop"
    /\ idx < Len(order)
    /\ idx' = idx + 1
    /\ calls' = <<>>
    /\ LET d == order[idx + 1]
           file_children == FileChildren(tree, d)
           fs == { file_children[i] : i \in 1..Len(file_children) }
           cls == [ f \in fs |-> Classify(tree.kind[f]) ]
           readable == FilterSeq(file_children, { f \in fs : cls[f] = "batchable" })
       IN  /\ desc' = [ n \in Nodes(tree) |->
                          IF n \in fs /\ cls[n] = "binary_file" THEN BinaryPlaceholder
                          ELSE IF n \in fs /\ cls[n] = "encoding_error"
                               THEN BatchReadErrorPlaceholder
                               ELSE desc[n] ]
           /\ skipped' = [ n \in Nodes(tree) |->
                             IF n \in fs /\ cls[n] # "batchable" THEN True
                             ELSE skipped[n] ]
           /\ skip_reason' = [ n \in Nodes(tree) |->
                                 IF n \in fs /\ cls[n] # "batchable"
                                 THEN Str(<<cls[n]>>) ELSE skip_reason[n] ]
           /\ writes' = [ n \in Nodes(tree) |->
                            IF n \in fs /\ cls[n] # "batchable"
                            THEN Append(writes[n], "placeholder") ELSE writes[n] ]
           /\ batchable' = [ i \in 1..Len(readable) |-> BatchItem(tree, readable[i]) ]
           /\ IF readable = <<>>
              THEN pc' = "describe_dir" /\ ci' = 0
              ELSE pc' = "chunk" /\ ci' = 1
    /\ UNCHANGED <<watchVars, readVars, cliVars, tree, order, call, cj, descriptions, err>>

\* the chunk loop of describe_files_batch is over
ChunksDone ==
    /\ pc = "chunk"
    /\ ci > Len(batchable)
    /\ pc' = "describe_dir"
    /\ UNCHANGED <<watchVars, readVars, cliVars, writes,
                   tree, order, idx, call, desc, skipped, skip_reason,
                   batchable, ci, cj, descriptions, calls, err>>

\* _describe_batch_chunk on a chunk of one item
ChunkSingle ==
    /\ pc = "chunk"
    /\ ci <= Len(batchable)
    /\ Len(ChunkAt(batchable, ci)) = 1
    /\ DescribeSingleFile(ChunkAt(batchable, ci)[1].node, "chunk")
    /\ ci' = IF pc' = "crashed" THEN ci ELSE ci + MAX_CHILDREN_PER_BATCH
    /\ UNCHANGED <<watchVars, readVars, cliVars,
                   tree, order, idx, call, batchable, cj, descriptions>>

\* _describe_batch_chunk on a larger chunk: the batch prompt, the call and
\* the try block
ChunkBatch ==
    /\ pc = "chunk"
    /\ ci <= Len(batchable)
    /\ LET chunk == ChunkAt(batchable, ci)
       IN  /\ Len(chunk) # 1
           /\ \E r \in BatchCallResults :
               \E v \in JsonValues(ChunkNodes(chunk), order[idx]) :
                 /\ r.status # "running"
                 /\ IF r.status = "raised"
                    THEN /\ calls' = Append(calls, CallEntry(BatchPrompt(chunk), r, NotParsed))
                         /\ Crash(r.error)
                         /\ UNCHANGED <<cj, descriptions>>
                    ELSE LET parsed == ParseReply(r.value, v)
                         IN  /\ calls' = Append(calls, CallEntry(BatchPrompt(chunk), r, parsed))
                             /\ cj' = 1
                             /\ err' = err
                             /\ IF parsed.raises \in {"JSONDecodeError", "IndexError"}
                                THEN pc' = "fallback" /\ descriptions' = descriptions
                                ELSE pc' = "assign" /\ descriptions' = parsed.val
    /\ UNCHANGED <<watchVars, readVars, cliVars, writes,
                   tree, order, idx, call, desc, skipped, skip_reason,
                   batchable, ci>>

\* the except branch: for node, _, _ in chunk: _describe_single_file(...)
FallbackSingle ==
    /\ pc = "fallback"
    /\ cj <= Len(ChunkAt(batchable, ci))
    /\ DescribeSingleFile(ChunkAt(batchable, ci)[cj].node, "fallback")
    /\ cj' = IF pc' = "crashed" THEN cj ELSE cj + 1
    /\ UNCHANGED <<watchVars, readVars, cliVars,
                   tree, order, idx, call, batchable, ci, descriptions>>

\* the except branch returning from describe_files_batch altogether
FallbackDoneEndsLoop ==
    /\ pc = "fallback"
    /\ cj > Len(ChunkAt(batchable, ci))
    /\ pc' = "chunk"
    /\ ci' = Len(batchable) + 1
    /\ cj' = 0
    /\ UNCHANGED <<watchVars, readVars, cliVars, writes,
                   tree, order, idx, call, desc, skipped, skip_reason,
                   batchable, descriptions, calls, err>>

\* the except branch returns; on to the next chunk
FallbackDone ==
    /\ pc = "fallback"
    /\ cj > Len(ChunkAt(batchable, ci))
    /\ pc' = "chunk"
    /\ ci' = ci + MAX_CHILDREN_PER_BATCH
    /\ cj' = 0
    /\ UNCHANGED <<watchVars, readVars, cliVars, writes,
                   tree, order, idx, call, desc, skipped, skip_reason,
                   batchable, descriptions, calls, err>>

\* the last loop, an item whose path the reply holds, without
\* node.skipped = False
AssignFromReplyNoFlag ==
    /\ pc = "assign"
    /\ cj <= Len(ChunkAt(batchable, ci))
    /\ LET node == ChunkAt(batchable, ci)[cj].node
           has == Contains(descriptions, node)
           got == Subscript(descriptions, node)
       IN  /\ has.raises # "" \/ has.result
           /\ IF has.raises # "" \/ got.raises # ""
              THEN /\ Crash([type |-> "TypeError", msg |-> ""])
                   /\ UNCHANGED <<desc, writes, cj>>
              ELSE /\ desc' = [desc EXCEPT ![node] = got.val]
                   /\ writes' = [writes EXCEPT ![node] = Append(@, "model")]
                   /\ cj' = cj + 1
                   /\ UNCHANGED <<pc, err>>
    /\ UNCHANGED <<watchVars, readVars, cliVars, skipped,
                   tree, order, idx, call, skip_reason, batchable, ci,
                   descriptions, calls>>

\* the last loop assigning under every key of the reply, not only under
\* node.path
AssignFromReplyAllKeys ==
    /\ pc = "assign"
    /\ cj <= Len(ChunkAt(batchable, ci))
    /\ LET node == ChunkAt(batchable, ci)[cj].node
           has == Contains(descriptions, node)
           got == Subscript(descriptions, node)
       IN  /\ has.raises # "" \/ has.result
           /\ IF has.raises # "" \/ got.raises # ""
              THEN /\ Crash([type |-> "TypeError", msg |-> ""])
                   /\ UNCHANGED <<desc, skipped, writes, cj>>
              ELSE /\ desc' = [ n \in Nodes(tree) |->
                                  IF n \in descriptions.keys
                                  THEN descriptions.map[n] ELSE desc[n] ]
                   /\ skipped' = [ n \in Nodes(tree) |->
                                     IF n \in descriptions.keys
                                     THEN False ELSE skipped[n] ]
                   /\ writes' = [writes EXCEPT ![node] = Append(@, "model")]
                   /\ cj' = cj + 1
                   /\ UNCHANGED <<pc, err>>
    /\ UNCHANGED <<watchVars, readVars, cliVars,
                   tree, order, idx, call, skip_reason, batchable, ci,
                   descriptions, calls>>

\* the last loop, an item whose path the reply holds (or a reply on which
\* the test itself raises)
AssignFromReply ==
    /\ pc = "assign"
    /\ cj <= Len(ChunkAt(batchable, ci))
    /\ LET node == ChunkAt(batchable, ci)[cj].node
           has == Contains(descriptions, node)
           got == Subscript(descriptions, node)
       IN  /\ has.raises # "" \/ has.result
           /\ IF has.raises # ""
              THEN /\ Crash([type |-> has.raises, msg |-> ""])
                   /\ UNCHANGED <<desc, skipped, writes, cj>>
              ELSE IF got.raises # ""
              THEN /\ Crash([type |-> got.raises, msg |-> ""])
                   /\ UNCHANGED <<desc, skipped, writes, cj>>
              ELSE /\ desc' = [desc EXCEPT ![node] = got.val]
                   /\ skipped' = [skipped EXCEPT ![node] = False]
                   /\ writes' = [writes EXCEPT ![node] = Append(@, "model")]
                   /\ cj' = cj + 1
                   /\ UNCHANGED <<pc, err>>
    /\ UNCHANGED <<watchVars, readVars, cliVars,
                   tree, order, idx, call, skip_reason, batchable, ci,
                   descriptions, calls>>

\* the last loop, an item whose path the reply does not hold
AssignFallback ==
    /\ pc = "assign"
    /\ cj <= Len(ChunkAt(batchable, ci))
    /\ LET node == ChunkAt(batchable, ci)[cj].node
           has == Contains(descriptions, node)
       IN  /\ has.raises = ""
           /\ ~has.result
           /\ DescribeSingleFile(node, "assign")
    /\ cj' = IF pc' = "crashed" THEN cj ELSE cj + 1
    /\ UNCHANGED <<watchVars, readVars, cliVars,
                   tree, order, idx, call, batchable, ci, descriptions>>

\* the last loop is over and the loop of the except branch runs as well
AssignDoneThenFallback ==
    /\ pc = "assign"
    /\ cj > Len(ChunkAt(batchable, ci))
    /\ pc' = "fallback"
    /\ cj' = 1
    /\ descriptions' = NoDescriptions
    /\ UNCHANGED <<watchVars, readVars, cliVars, writes,
                   tree, order, idx, call, desc, skipped, skip_reason,
                   batchable, ci, calls, err>>

\* the last loop is over; on to the next chunk
AssignDone ==
    /\ pc = "assign"
    /\ cj > Len(ChunkAt(batchable, ci))
    /\ pc' = "chunk"
    /\ ci' = ci + MAX_CHILDREN_PER_BATCH
    /\ cj' = 0
    /\ descriptions' = NoDescriptions
    /\ UNCHANGED <<watchVars, readVars, cliVars, writes,
                   tree, order, idx, call, desc, skipped, skip_reason,
                   batchable, calls, err>>

\* describe_directory without the test for an empty children list
DescribeEmptyDirectoryByCall ==
    /\ pc = "describe_dir"
    /\ Children(tree, order[idx]) = <<>>
    /\ \E r \in TextCallResults :
          /\ r.status = "returned"
          /\ calls' = Append(calls, CallEntry(DirPrompt(tree, order[idx]), r, NotParsed))
          /\ desc' = [desc EXCEPT ![order[idx]] = Str(r.value)]
          /\ writes' = [writes EXCEPT ![order[idx]] = Append(@, "model")]
          /\ pc' = "loop"
    /\ UNCHANGED <<watchVars, readVars, cliVars,
                   tree, order, idx, call, skipped, skip_reason, batchable,
                   ci, cj, descriptions, err>>

\* the loop of main handing out the same directory again after an empty one
DescribeEmptyDirectoryAgain ==
    /\ pc = "describe_dir"
    /\ Children(tree, order[idx]) = <<>>
    /\ idx' = idx - 1
    /\ pc' = "loop"
    /\ UNCHANGED <<watchVars, readVars, cliVars, writes,
                   tree, order, call, desc, skipped, skip_reason, batchable,
                   ci, cj, descriptions, calls, err>>

\* describe_directory on a directory without children
DescribeEmptyDirectory ==
    /\ pc = "describe_dir"
    /\ Children(tree, order[idx]) = <<>>
    /\ desc' = [desc EXCEPT ![order[idx]] = EmptyDirectoryDescription]
    /\ writes' = [writes EXCEPT ![order[idx]] = Append(@, "fixed")]
    /\ pc' = "loop"
    /\ UNCHANGED <<watchVars, readVars, cliVars,
                   tree, order, idx, call, skipped, skip_reason, batchable,
                   ci, cj, descriptions, calls, err>>

\* describe_directory on a directory with children
DescribeDirectory ==
    /\ pc = "describe_dir"
    /\ Children(tree, order[idx]) # <<>>
    /\ \E r \in TextCallResults :
          /\ r.status # "running"
          /\ calls' = Append(calls, CallEntry(DirPrompt(tree, order[idx]), r, NotParsed))
          /\ IF r.status = "returned"
             THEN /\ desc' = [desc EXCEPT ![order[idx]] = Str(r.value)]
                  /\ writes' = [writes EXCEPT ![order[idx]] = Append(@, "model")]
                  /\ pc' = "loop"
                  /\ err' = err
             ELSE /\ Crash(r.error)
                  /\ UNCHANGED <<desc, writes>>
    /\ UNCHANGED <<watchVars, readVars, cliVars,
                   tree, order, idx, call, skipped, skip_reason, batchable,
                   ci, cj, descriptions>>

\* phase 4 entered from inside the loop
MainWriteEarly ==
    /\ pc = "loop"
    /\ output' = Document("file")
    /\ exit_code' = Returned(0)
    /\ pc' = "done"
    /\ UNCHANGED <<watchVars, readVars, args, isdir, api_key, client, writes,
                   tree, order, idx, call, desc, skipped, skip_reason,
                   batchable, ci, cj, descriptions, calls, err>>

\* phase 4: the loop is over, the document is written, main returns 0
MainWrite ==
    /\ pc = "loop"
    /\ idx = Len(order)
    /\ output' = Document("file")
    /\ exit_code' = Returned(0)
    /\ pc' = "done"
    /\ UNCHANGED <<watchVars, readVars, args, isdir, api_key, client, writes,
                   tree, order, idx, call, desc, skipped, skip_reason,
                   batchable, ci, cj, descriptions, calls, err>>

Next ==
    \/ MainNotADirectory
    \/ MainBuildTree
    \/ MainDryRun
    \/ MainNoCredentials
    \/ MainCreateClient
    \/ MainStart
    \/ MainNextDir
    \/ ChunksDone
    \/ ChunkSingle
    \/ ChunkBatch
    \/ FallbackSingle
    \/ FallbackDone
    \/ AssignFromReply
    \/ AssignFallback
    \/ AssignDone
    \/ DescribeEmptyDirectory
    \/ DescribeDirectory
    \/ MainWrite

Spec == Init /\ [][Next]_vars

(***************************************************************************)
(* SpecLive: the runs of the pipeline and of a single _call_llm, with the  *)
(* progress that a sequential program makes: main keeps executing until it *)
(* has returned or an exception has left it, and every request to the      *)
(* service ends in a reply or in an exception (the client's timeout).      *)
(***************************************************************************)
\* main has returned or raised; the _call_llm followed alone has
Terminated ==
    \/ pc \in {"done", "exited", "crashed"}
    \/ pc = "call" /\ call.status \in {"returned", "raised"}

\* what the filesystem holds for a file in the runs followed to their end:
\* a file that is read and sent, and one that is skipped
LiveKinds == {"text", "binary"}

InitLive ==
    \/ InitCall
    \/ Init /\ \A f \in { i \in Nodes(tree) : tree.type[i] = "file" } :
                  tree.kind[f] \in LiveKinds

NextLive == NextCall \/ Next

\* weak fairness of the program's next step.  For _call_llm followed alone
\* it is WF_vars(NextCall).  For main it is WF_vars(Next) with ENABLED
\* <<Next>>_vars written as what it amounts to, pc being none of "done",
\* "exited" and "crashed": infinitely often main has ended or takes a step.
Fairness ==
    /\ WF_vars(NextCall)
    /\ ([]<>(Terminated \/ pc = "call") \/ []<><<Next>>_vars)

SpecLive == InitLive /\ [][NextLive]_vars /\ Fairness

(***************************************************************************)
(* watch_dashboard.py.  SpecWatch: the observer thread, which calls the    *)
(* event handlers one event after the other, and the threading.Timer       *)
(* threads schedule_update starts, each of which runs run_describedir      *)
(* unless it was cancelled while it waited.  The steps of the threads      *)
(* interleave freely; set.add and set.clear are atomic.                    *)
(***************************************************************************)
\* events the observer thread dispatches in one run of the model
MaxEvents == 3

\* event.src_path: two files under the working directory, one file outside
\* it, and one file under an ignored directory
SrcPaths == {"/cwd/a.py", "/cwd/b.py", "/other/c.py", "/cwd/.git/index"}

WatchEvents == [src_path : SrcPaths, is_directory : BOOLEAN]

\* should_ignore: one of the ignore patterns is a substring of the path
should_ignore(path) == path = "/cwd/.git/index"

\* str(Path(filepath).relative_to(Path.cwd())), or filepath when that
\* raises ValueError
RelPath(filepath) ==
    CASE filepath = "/cwd/a.py" -> "a.py"
      [] filepath = "/cwd/b.py" -> "b.py"
      [] filepath = "/cwd/.git/index" -> ".git/index"
      [] OTHER -> filepath

\* a Timer thread: its state, and for the claims the paths recorded while
\* its run_describedir was in progress (during) and changed_files as
\* run_describedir left it (left)
NewTimer == [state |-> "waiting", during |-> {}, left |-> {}]

\* run_describedir has been entered and has not returned
InProgress(t) == timers[t].state \in {"running", "returned0"}

InitWatch ==
    /\ tree = SingleRoot
    /\ pc = "watch"
    /\ order = <<>>
    /\ idx = 0
    /\ call = IdleCall(MAX_RETRIES)
    /\ ScannedFields(tree)
    /\ NoBatch
    /\ args = DefaultArgs
    /\ isdir = TRUE
    /\ api_key = None
    /\ NoCli
    /\ NoRead
    /\ NoWatch

\* on_modified, on_created, on_deleted up to the call of schedule_update:
\* the event is dropped, or dashboard.add_changed_file(event.src_path)
HandleEvent(event) ==
    /\ pc = "watch"
    /\ watcher.pc = "idle"
    /\ watcher.handled < MaxEvents
    /\ IF event.is_directory \/ should_ignore(event.src_path)
       THEN /\ watcher' = [watcher EXCEPT !.handled = @ + 1]
            /\ UNCHANGED <<changed_files, timers>>
       ELSE /\ changed_files' = changed_files \cup {RelPath(event.src_path)}
            /\ timers' = [ t \in 1..Len(timers) |->
                             IF InProgress(t)
                             THEN [timers[t] EXCEPT
                                     !.during = @ \cup {RelPath(event.src_path)}]
                             ELSE timers[t] ]
            /\ watcher' = [pc |-> "schedule_update",
                           handled |-> watcher.handled + 1,
                           src_path |-> event.src_path]
    /\ UNCHANGED <<debounce_timer, readVars, cliVars, writes,
                   tree, pc, order, idx, call, desc, skipped, skip_reason,
                   batchable, ci, cj, descriptions, calls, err>>

on_modified == \E event \in WatchEvents : HandleEvent(event)
on_created == \E event \in WatchEvents : HandleEvent(event)
on_deleted == \E event \in WatchEvents : HandleEvent(event)

\* Timer.cancel(): a timer that still waits will not run its function; on
\* any other timer it has no effect
Cancel(ts, t) ==
    IF t # 0 /\ ts[t].state = "waiting"
    THEN [ts EXCEPT ![t].state = "cancelled"]
    ELSE ts

\* schedule_update: cancel the previous timer, start a new one
schedule_update ==
    /\ pc = "watch"
    /\ watcher.pc = "schedule_update"
    /\ timers' = Append(Cancel(timers, debounce_timer), NewTimer)
    /\ debounce_timer' = Len(timers) + 1
    /\ watcher' = [watcher EXCEPT !.pc = "idle"]
    /\ UNCHANGED <<changed_files, readVars, cliVars, writes,
                   tree, pc, order, idx, call, desc, skipped, skip_reason,
                   batchable, ci, cj, descriptions, calls, err>>

\* debounce_delay is over for a timer that was not cancelled: its thread
\* enters run_describedir and starts the subprocess
TimerFires(t) ==
    /\ pc = "watch"
    /\ timers[t].state = "waiting"
    /\ timers' = [timers EXCEPT ![t].state = "running"]
    /\ UNCHANGED <<changed_files, debounce_timer, watcher, readVars, cliVars,
                   writes, tree, pc, order, idx, call, desc, skipped,
                   skip_reason, batchable, ci, cj, descriptions, calls, err>>

\* subprocess.run returns with returncode 0, or it returns another code,
\* times out or raises, and run_describedir prints the error and returns
SubprocessEnds(t) ==
    /\ pc = "watch"
    /\ timers[t].state = "running"
    /\ \E ok \in BOOLEAN :
          timers' = [timers EXCEPT
                       ![t].state = IF ok THEN "returned0" ELSE "failed",
                       ![t].left = IF ok THEN @ ELSE changed_files]
    /\ UNCHANGED <<changed_files, debounce_timer, watcher, readVars, cliVars,
                   writes, tree, pc, order, idx, call, desc, skipped,
                   skip_reason, batchable, ci, cj, descriptions, calls, err>>

\* if result.returncode == 0: load_data(); clear_changed_files();
\* print_dashboard()
ClearChangedFiles(t) ==
    /\ pc = "watch"
    /\ timers[t].state = "returned0"
    /\ changed_files' = {}
    /\ timers' = [timers EXCEPT ![t].state = "done", ![t].left = changed_files']
    /\ UNCHANGED <<debounce_timer, watcher, readVars, cliVars,
                   writes, tree, pc, order, idx, call, desc, skipped,
                   skip_reason, batchable, ci, cj, descriptions, calls, err>>

NextWatch ==
    \/ on_modified
    \/ on_created
    \/ on_deleted
    \/ schedule_update
    \/ \E t \in 1..Len(timers) : TimerFires(t)
    \/ \E t \in 1..Len(timers) : SubprocessEnds(t)
    \/ \E t \in 1..Len(timers) : ClearChangedFiles(t)

SpecWatch == InitWatch /\ [][NextWatch]_vars

(***************************************************************************)
(* Claims.                                                                 *)
(***************************************************************************)
Dirs(t) == { i \in Nodes(t) : t.type[i] = "directory" }
Files(t) == { i \in Nodes(t) : t.type[i] = "file" }

\* C1: in the sequence walk_bottom_up yields, no directory appears before
\* any of its descendant directories: when a directory A is yielded, every
\* directory B below A has been yielded before it (SpecWalk).
C1_DescendantsFirst ==
    pc = "yield" =>
        \A i \in 1..idx :
            \A b \in Dirs(tree) :
                IsAncestor(tree, order[i], b) =>
                    \E j \in 1..(i - 1) : order[j] = b

\* the walk of a chain three directories deep, with a second directory
\* beside the chain, has been consumed to its end
C1_Witness ==
    /\ pc = "yield"
    /\ idx = Len(order)
    /\ \E a, b, c \in Dirs(tree) :
          /\ tree.parent[b] = a /\ tree.parent[c] = b
          /\ \E d \in Dirs(tree) : tree.parent[d] = a /\ d # b

\* C4: one _call_llm invocation issues at most max_retries requests; no
\* request follows a successful one, which ends the invocation with a
\* return; and when max_retries requests have all failed the invocation has
\* ended in a raised error, not in a return (SpecCall).
C4_BoundedRetries ==
    /\ Len(call.requests) <= call.max_retries
    /\ \A i \in 1..Len(call.requests) :
          call.requests[i].kind = "ok" =>
              i = Len(call.requests) /\ call.status = "returned"
    /\ ( /\ call.status # "idle"
         /\ Len(call.requests) = call.max_retries
         /\ \A i \in 1..Len(call.requests) : call.requests[i].kind = "exc" )
       => call.status = "raised"
    /\ call.status = "returned" =>
          /\ call.requests # <<>>
          /\ call.requests[Len(call.requests)].kind = "ok"

\* the default budget of 3 is used up by a rate limit, a timeout and a
\* rate limit, and the invocation has raised
C4_Witness ==
    /\ call.max_retries = MAX_RETRIES
    /\ call.status = "raised"
    /\ Len(call.requests) = MAX_RETRIES
    /\ call.requests[1].exc = "RateLimitError"
    /\ call.requests[2].exc = "APITimeoutError"
    /\ call.requests[3].exc = "RateLimitError"

\* C5: a request answered with a non-retryable error ends the invocation at
\* once: it is the last request, the error is raised to the caller, and no
\* backoff sleep follows it (SpecCall).
C5_NonRetryablePropagates ==
    \A i \in 1..Len(call.requests) :
        call.requests[i].exc \in NonRetryable =>
            /\ i = Len(call.requests)
            /\ call.status = "raised"
            /\ \A k \in 1..Len(call.sleeps) : call.sleeps[k].attempt # i - 1

\* the directory the loop of main is at
CurrentDir == order[idx]

\* C2: whenever describe_directory is invoked on a directory, every
\* immediate child of it (file or subdirectory) has a non-empty description.
C2_ChildrenDescribedFirst ==
    pc = "describe_dir" =>
        \A c \in Nodes(tree) :
            tree.parent[c] = CurrentDir => IsText(desc[c])

\* C3: after the pipeline has run to completion every node has a non-empty,
\* non-null description and every file node has skipped set to a boolean.
C3_AllDescribedAtEnd ==
    pc = "done" =>
        /\ \A n \in Nodes(tree) : IsText(desc[n])
        /\ \A f \in Files(tree) : skipped[f] \in {True, False}

\* the files of a directory that the filesystem holds as decodable text
Readable(t, d) ==
    { f \in Files(t) : t.parent[f] = d /\ t.kind[f] \in {"text", "bigtext"} }

CeilDiv(n, k) == (n + k - 1) \div k

SkipPlaceholders ==
    { BinaryPlaceholder, BatchReadErrorPlaceholder, SingleReadErrorPlaceholder }

\* every invocation logged for the current directory returned, every batch
\* reply parsed to a dict that gives every path of its chunk a non-empty
\* text, and every single-file reply is a non-empty text
AllRepliesComplete ==
    \A i \in 1..Len(calls) :
        LET e == calls[i]
            asked == { e.prompt.items[k].node : k \in 1..Len(e.prompt.items) }
        IN  /\ e.status = "returned"
            /\ e.prompt.kind = "batch" =>
                  e.parse_error = "" /\ e.j = "dict" /\ asked \subseteq e.filled
            /\ e.prompt.kind = "single" => e.prompt.target \in e.filled

\* C6: when describe_files_batch has returned and every call it made
\* succeeded with a complete parseable reply, it made exactly
\* ceil(n / MAX_CHILDREN_PER_BATCH) calls for the n readable files, and each
\* of them has skipped = False and a description that is a non-empty text
\* and no skip placeholder.
C6_BatchCallCount ==
    (pc = "describe_dir" /\ AllRepliesComplete) =>
        /\ Len(calls) = CeilDiv(Cardinality(Readable(tree, CurrentDir)),
                                MAX_CHILDREN_PER_BATCH)
        /\ \A f \in Readable(tree, CurrentDir) :
              /\ skipped[f] = False
              /\ skip_reason[f] = None
              /\ IsText(desc[f])
              /\ desc[f] \notin SkipPlaceholders

\* describe_files_batch has returned from a directory with more readable
\* files than one chunk holds, after a batch call and a single-file call
\* with complete replies
C6_Witness ==
    /\ pc = "describe_dir"
    /\ AllRepliesComplete
    /\ Cardinality(Readable(tree, CurrentDir)) = MAX_CHILDREN_PER_BATCH + 1
    /\ Len(calls) = 2
    /\ calls[1].prompt.kind = "batch"
    /\ Len(calls[1].prompt.items) = MAX_CHILDREN_PER_BATCH
    /\ calls[2].prompt.kind = "single"

\* the chunk _describe_batch_chunk is working on, and the calls made since
\* (and including) its batch call
CurrentChunk == ChunkNodes(ChunkAt(batchable, ci))

LastBatchAt ==
    CHOOSE i \in 1..Len(calls) :
        /\ calls[i].prompt.kind = "batch"
        /\ \A k \in (i + 1)..Len(calls) : calls[k].prompt.kind # "batch"

CallsSinceBatch == SubSeq(calls, LastBatchAt + 1, Len(calls))

SingleTargets(cs) ==
    [ i \in 1..Len(cs) |-> IF cs[i].prompt.kind = "single" THEN cs[i].prompt.target ELSE 0 ]

\* C7: when the reply to the batch call for a chunk of k >= 2 files was not
\* parseable and the except branch has run to its end, exactly k individual
\* calls followed the batch call, one per chunk item in chunk order, and no
\* file of the chunk has an empty description.
C7_UnparseableFallsBack ==
    (pc = "fallback" /\ cj > Len(CurrentChunk)) =>
        /\ calls[LastBatchAt].parse_error \in {"JSONDecodeError", "IndexError"}
        /\ SingleTargets(CallsSinceBatch) = CurrentChunk
        /\ \A i \in 1..Len(CurrentChunk) : IsText(desc[CurrentChunk[i]])

\* the part of C7 about the calls alone
C7_FallbackCallsInOrder ==
    (pc = "fallback" /\ cj > Len(CurrentChunk)) =>
        /\ calls[LastBatchAt].parse_error \in {"JSONDecodeError", "IndexError"}
        /\ SingleTargets(CallsSinceBatch) = CurrentChunk

\* the chunk items the last loop of _describe_batch_chunk is through with
Processed == SubSeq(CurrentChunk, 1, cj - 1)

\* C8: when a batch reply parsed to a mapping, then of the chunk items the
\* last loop is through with, exactly those whose path the mapping omits
\* fell back to an individual call (one call each, in chunk order), and
\* every item whose path is a key has the mapping's value as its
\* description and no individual call was made for it.
C8_OmittedFallBack ==
    (pc = "assign" /\ descriptions.j = "dict") =>
        /\ SingleTargets(CallsSinceBatch)
              = FilterSeq(Processed, Nodes(tree) \ descriptions.keys)
        /\ \A i \in 1..Len(Processed) :
              Processed[i] \in descriptions.keys =>
                  /\ desc[Processed[i]] = descriptions.map[Processed[i]]
                  /\ skipped[Processed[i]] = False

\* the last loop is over for a chunk whose reply held the path of the
\* second item only, with another value than it would give the first
C8_Witness ==
    /\ pc = "assign"
    /\ descriptions.j = "dict"
    /\ cj > Len(CurrentChunk)
    /\ CurrentChunk[1] \notin descriptions.keys
    /\ CurrentChunk[2] \in descriptions.keys
    /\ Len(CallsSinceBatch) = 1
    /\ desc[CurrentChunk[1]] # desc[CurrentChunk[2]]

\* C9: no reply to a batch call makes _describe_batch_chunk raise: the only
\* exception that leaves it is the hard failure of a _call_llm invocation.
C9_ParseFailuresAbsorbed ==
    pc = "crashed" => err.type = "RuntimeError"

\* the directories describe_directory has returned from
Described ==
    { order[i] : i \in { k \in 1..idx : k < idx \/ pc \in {"loop", "done"} } }

\* C10: a directory with zero children has the description
\* "Empty directory." once describe_directory has returned from it, and no
\* remote call was made for it.
C10_EmptyDirectory ==
    \A d \in Described :
        Children(tree, d) = <<>> =>
            /\ desc[d] = EmptyDirectoryDescription
            /\ (d = CurrentDir => calls = <<>>)

\* describe_directory has returned from an empty subdirectory
C10_Witness ==
    /\ pc = "loop"
    /\ idx >= 1
    /\ CurrentDir # 1
    /\ Children(tree, CurrentDir) = <<>>
    /\ desc[CurrentDir] = EmptyDirectoryDescription

\* what the filesystem holds for a file that is_binary_file or
\* read_file_content turns down
UnreadableKinds == {"binary", "undecodable", "unopenable"}

\* the directories describe_files_batch has been called for
Batched == { order[i] : i \in 1..idx }

\* C11: a file classified as binary or as a read error is in no batch prompt
\* and in no single-file prompt and never among the batchable items; it is
\* written once, with its skip placeholder and skipped = True, as soon as
\* describe_files_batch has met it, and never again; and no OSError or
\* UnicodeDecodeError leaves main.
C11_UnreadableNeverSent ==
    /\ \A i \in 1..Len(calls) :
          calls[i].prompt.kind \in {"batch", "single"} =>
              \A k \in 1..Len(calls[i].prompt.items) :
                  tree.kind[calls[i].prompt.items[k].node] \notin UnreadableKinds
    /\ \A i \in 1..Len(batchable) :
          tree.kind[batchable[i].node] \notin UnreadableKinds
    /\ \A f \in Files(tree) :
          tree.kind[f] \in UnreadableKinds =>
              IF tree.parent[f] \in Batched
              THEN /\ writes[f] = <<"placeholder">>
                   /\ skipped[f] = True
                   /\ skip_reason[f] \in { Str(<<"binary_file">>),
                                           Str(<<"encoding_error">>) }
                   /\ desc[f] \in SkipPlaceholders
              ELSE writes[f] = <<>>
    /\ pc = "crashed" => err.type \notin {"OSError", "UnicodeDecodeError"}

\* describe_files_batch has returned from a directory with a binary file,
\* an undecodable file and a text file, after one call, for the text file
C11_Witness ==
    /\ pc = "describe_dir"
    /\ \E b, u, r \in Files(tree) :
          /\ tree.kind[b] = "binary"
          /\ tree.kind[u] = "undecodable"
          /\ tree.kind[r] = "text"
          /\ tree.parent[b] = CurrentDir
          /\ tree.parent[u] = CurrentDir
          /\ tree.parent[r] = CurrentDir
          /\ skip_reason[b] = Str(<<"binary_file">>)
          /\ skip_reason[u] = Str(<<"encoding_error">>)
          /\ Len(calls) = 1
          /\ calls[1].prompt.kind = "single"
          /\ calls[1].prompt.target = r

\* the first call _describe_batch_chunk makes for the chunk that starts at
\* item i: the single-file prompt for a chunk of one, the batch prompt else
FirstPrompt(i) ==
    IF Len(ChunkAt(batchable, i)) = 1
    THEN SinglePrompt(tree, batchable[i].node)
    ELSE BatchPrompt(ChunkAt(batchable, i))

\* the items at which the chunks of batchable start
ChunkStarts ==
    { i \in 1..Len(batchable) : (i - 1) % MAX_CHILDREN_PER_BATCH = 0 }

\* C12 as stated: once describe_files_batch is over for a directory, by
\* returning or by an exception, every readable file outside the chunk it
\* was at has been given a description.
C12_ChunksIndependent ==
    pc \in {"describe_dir", "crashed"} =>
        \A i \in 1..Len(batchable) :
            (i < ci \/ i >= ci + MAX_CHILDREN_PER_BATCH) =>
                writes[batchable[i].node] # <<>>

\* C12, amended: a reply that cannot be parsed or that omits paths is
\* settled within its chunk and the loop goes on: every chunk before the
\* current one had its own first call and its files are assigned once with
\* skipped = False, and when describe_files_batch returns that holds of
\* every chunk.  Only an exception that leaves _describe_batch_chunk (the
\* hard failure of a call, or the error raised on a reply that is no
\* mapping) ends the loop, and then no later chunk is processed: its files
\* are never assigned and no call is made for them.
C12_ChunksIndependentUnlessRaised ==
    pc \in {"chunk", "fallback", "assign", "describe_dir", "crashed"} =>
        /\ pc = "describe_dir" => ci = 0 \/ ci > Len(batchable)
        /\ \A i \in 1..Len(batchable) :
              /\ i < ci =>
                    /\ Len(writes[batchable[i].node]) = 1
                    /\ skipped[batchable[i].node] = False
              /\ i >= ci + MAX_CHILDREN_PER_BATCH =>
                    /\ writes[batchable[i].node] = <<>>
                    /\ \A k \in 1..Len(calls) :
                          \A m \in 1..Len(calls[k].prompt.items) :
                              calls[k].prompt.items[m].node # batchable[i].node
        /\ \A i \in ChunkStarts :
              i < ci => \E k \in 1..Len(calls) : calls[k].prompt = FirstPrompt(i)

\* describe_files_batch has returned from a directory of two chunks: the
\* reply for the first chunk could not be parsed, each of its files had an
\* individual call, and then the second chunk had its call
C12_Witness ==
    /\ pc = "describe_dir"
    /\ Len(batchable) = MAX_CHILDREN_PER_BATCH + 1
    /\ Len(calls) = MAX_CHILDREN_PER_BATCH + 2
    /\ calls[1].prompt.kind = "batch"
    /\ calls[1].parse_error \in {"JSONDecodeError", "IndexError"}
    /\ calls[Len(calls)].prompt = FirstPrompt(MAX_CHILDREN_PER_BATCH + 1)
    /\ \A i \in 1..Len(batchable) : skipped[batchable[i].node] = False

\* C13: an invocation that ends in a hard failure is the last one: the
\* RuntimeError leaves main at once, main returns nothing and writes no
\* document, the directory it was at and every directory still to be
\* yielded stay without a description, and the files of the latter stay
\* untouched; and a document is written to the output path only when every
\* directory has been yielded and described.
C13_HardFailurePropagates ==
    /\ \A i \in 1..Len(calls) :
          calls[i].status = "raised" =>
              /\ i = Len(calls)
              /\ pc = "crashed"
              /\ err.type = "RuntimeError"
    /\ (pc = "crashed" /\ err.type = "RuntimeError") =>
          /\ calls # <<>>
          /\ calls[Len(calls)].status = "raised"
          /\ output = NoOutput
          /\ exit_code = NotReturned
          /\ \A k \in idx..Len(order) : writes[order[k]] = <<>>
          /\ \A k \in (idx + 1)..Len(order) :
                \A c \in Nodes(tree) :
                    tree.parent[c] = order[k] /\ tree.type[c] = "file" =>
                        writes[c] = <<>>
    /\ output.to = "file" =>
          /\ pc = "done"
          /\ idx = Len(order)
          /\ \A d \in Dirs(tree) :
                /\ \E k \in 1..Len(order) : order[k] = d
                /\ writes[d] # <<>>
                /\ output.tree[d].description = desc[d]

\* the first directory yielded was described with its file; the call for
\* the second directory exhausted its retries and the error has left main
\* with the root still to come
C13_Witness ==
    /\ pc = "crashed"
    /\ err.type = "RuntimeError"
    /\ idx = 2
    /\ Len(order) = 3
    /\ writes[order[1]] = <<"model">>
    /\ calls[Len(calls)].prompt.kind = "dir"
    /\ output = NoOutput

\* the service credentials are missing: OPENAI_API_KEY is unset or empty
CredentialsMissing == api_key \in { None, Str(<<>>) }

\* C14: main has returned exactly when it has left through one of its
\* return statements; the value is 1 when the root is no directory and
\* when, without --dry-run, the credentials are missing, and 0 in every
\* other run; in the two failing cases main returns before the pipeline
\* starts.
C14_ExitCodes ==
    /\ exit_code.returned <=> pc \in {"exited", "done"}
    /\ exit_code.returned =>
          exit_code.code =
              IF ~isdir \/ (~args.dry_run /\ CredentialsMissing) THEN 1 ELSE 0
    /\ (~isdir \/ (~args.dry_run /\ CredentialsMissing)) =>
          /\ pc \in {"main", "scanned", "exited"}
          /\ output = NoOutput
          /\ client = None

\* the root is a directory, the key is unset and main has returned 1
C14_Witness ==
    /\ pc = "exited"
    /\ isdir
    /\ ~args.dry_run
    /\ api_key = None
    /\ exit_code = Returned(1)

\* C15: with --dry-run no client is created, no model call is made and no
\* node is written; when the root is a directory main prints the document
\* and returns 0 whatever the credentials are, and in the document every
\* node has its fields as the scan left them: the description is the empty
\* string and skipped and skip_reason are absent.
C15_DryRun ==
    args.dry_run =>
        /\ client = None
        /\ calls = <<>>
        /\ pc \in {"main", "scanned", "exited"}
        /\ \A n \in Nodes(tree) : writes[n] = <<>>
        /\ (pc = "exited" /\ isdir) =>
              /\ exit_code = Returned(0)
              /\ output.to = "stdout"
              /\ DOMAIN output.tree = Nodes(tree)
              /\ \A n \in Nodes(tree) :
                    /\ output.tree[n].description = Str(<<>>)
                    /\ "skipped" \notin DOMAIN output.tree[n]
                    /\ "skip_reason" \notin DOMAIN output.tree[n]

\* a preview of a tree of MaxNodes nodes has returned 0 without a key
C15_Witness ==
    /\ args.dry_run
    /\ api_key = None
    /\ tree.n = MaxNodes
    /\ pc = "exited"
    /\ exit_code = Returned(0)
    /\ output.to = "stdout"

\* the fields of the nodes that make the shape of the tree
Shape(t) ==
    [ n \in Nodes(t) |->
        [ name |-> n, type |-> t.type[n], path |-> n,
          size_bytes |-> IF t.type[n] = "file" THEN SizeBytes(t.kind[n]) ELSE 0,
          children |-> Children(t, n) ] ]

\* C16: no step of main, describe_files_batch, _describe_batch_chunk,
\* _describe_single_file or describe_directory changes the name, type,
\* path, size_bytes or children of any node: the shape of the tree is in
\* every state what the scan made it.
C16_TreeShapeUnchanged == [][Shape(tree') = Shape(tree)]_vars

\* the pipeline has run to its end on a tree with a subdirectory that holds
\* a file, every node has been written, and the document lists the
\* children the scan found
C16_Witness ==
    /\ pc = "done"
    /\ tree.n = MaxNodes
    /\ \E d \in Dirs(tree) : \E f \in Files(tree) :
          tree.parent[d] = 1 /\ tree.parent[f] = d
    /\ \A n \in Nodes(tree) : writes[n] # <<>>
    /\ \A d \in Dirs(tree) : output.tree[d].children.items = Children(tree, d)

\* C17: no node has its description assigned twice, along any path through
\* describe_files_batch (placeholder, batch reply, fallback after an
\* unparseable reply, fallback for an omitted path) or describe_directory;
\* a directory is assigned only when every child of it has been assigned;
\* and when the pipeline has run to its end every node has been assigned
\* exactly once.
C17_AssignedOnce ==
    /\ \A n \in Nodes(tree) : Len(writes[n]) <= 1
    /\ \A d \in Dirs(tree) :
          writes[d] # <<>> =>
              \A c \in Nodes(tree) : tree.parent[c] = d => Len(writes[c]) = 1
    /\ pc = "done" => \A n \in Nodes(tree) : Len(writes[n]) = 1

\* the pipeline has run to its end on a directory with a subdirectory and
\* two readable files, one assigned from the batch reply and one, whose
\* path the reply omitted, by its fallback call
C17_Witness ==
    /\ pc = "done"
    /\ \E d \in Dirs(tree) : tree.parent[d] = 1
    /\ Len(calls) = 3
    /\ calls[1].prompt.kind = "batch"
    /\ calls[1].j = "dict"
    /\ Cardinality(calls[1].keys \cap Files(tree)) = 1
    /\ calls[2].prompt.kind = "single"
    /\ calls[3].prompt.kind = "dir"
    /\ \A n \in Nodes(tree) : writes[n] # <<>>

\* the files describe_files_batch is through with: those of the
\* directories it has returned from
FilesProcessed ==
    { f \in Files(tree) :
        \E k \in 1..idx :
            /\ order[k] = tree.parent[f]
            /\ k < idx \/ pc \in {"describe_dir", "loop", "done"} }

SkipMarked(f) ==
    /\ skipped[f] = True
    /\ skip_reason[f] \in { Str(<<"binary_file">>), Str(<<"encoding_error">>) }
    /\ desc[f] \in SkipPlaceholders
    /\ writes[f] = <<"placeholder">>

ModelDescribed(f) ==
    /\ skipped[f] = False
    /\ skip_reason[f] = None
    /\ writes[f] = <<"model">>

\* C18: every file describe_files_batch is through with is either skip
\* marked (skipped = True, a skip_reason, a placeholder that no reply
\* supplied) or model described (skipped = False, no skip_reason, the
\* description taken from a reply), never both and never neither; and at
\* no time does a file that carries a skip marker hold a description taken
\* from a reply.
C18_SkippedOrDescribed ==
    /\ \A f \in FilesProcessed : SkipMarked(f) # ModelDescribed(f)
    /\ \A f \in Files(tree) :
          (skipped[f] = True \/ skip_reason[f] # None) =>
              \A i \in 1..Len(writes[f]) : writes[f][i] # "model"

\* the pipeline has run to its end on a directory with a binary file, an
\* unreadable file and a file described by the model
C18_Witness ==
    /\ pc = "done"
    /\ \E b, u, r \in Files(tree) :
          /\ tree.kind[b] = "binary"
          /\ tree.kind[u] = "unopenable"
          /\ SkipMarked(b)
          /\ SkipMarked(u)
          /\ ModelDescribed(r)

\* C19: every prompt part built from a file whose size exceeds the
\* threshold read_file_content works with holds no more than
\* TRUNCATED_READ_BYTES bytes of it and carries a truncation note, and every
\* part built from a file whose size does not exceed the threshold holds
\* the whole file and carries no note (SpecRead).
C19_TruncatedAboveThreshold ==
    \A i \in 1..Len(parts) :
        IF getsize(file) > MAX_FILE_SIZE_BYTES
        THEN /\ Bytes(parts[i].content) <= TRUNCATED_READ_BYTES
             /\ parts[i].trunc_note # <<>>
        ELSE /\ parts[i].content = file
             /\ parts[i].trunc_note = <<>>

\* the part of C19 that holds: the same with the excerpt measured in
\* characters, not bytes
C19_TruncatedInCharacters ==
    \A i \in 1..Len(parts) :
        IF getsize(file) > MAX_FILE_SIZE_BYTES
        THEN /\ Len(parts[i].content) <= TRUNCATED_READ_BYTES
             /\ parts[i].content = SubSeq(file, 1, Len(parts[i].content))
             /\ parts[i].trunc_note # <<>>
        ELSE /\ parts[i].content = file
             /\ parts[i].trunc_note = <<>>

\* the threshold the command line asks for: --max-file-size if given, the
\* default otherwise
RequestedThreshold ==
    IF args.max_file_size.none THEN MAX_FILE_SIZE_BYTES
    ELSE args.max_file_size.n

\* C20: the file is truncated, and its prompt parts are marked truncated,
\* exactly when its size exceeds the threshold given with --max-file-size
\* (SpecRead).
C20_MaxFileSizeUsed ==
    /\ excerpt.read =>
          (excerpt.was_truncated <=> getsize(file) > RequestedThreshold)
    /\ \A i \in 1..Len(parts) :
          parts[i].trunc_note # <<>> <=> getsize(file) > RequestedThreshold

(***************************************************************************)
(* C21..C28                                                                *)
(***************************************************************************)
\* a value the output document would call empty: None, "" or []
IsEmptyField(k, v) ==
    \/ v.t = "none"
    \/ k \in {"description", "skip_reason"} /\ v = Str(<<>>)
    \/ k = "children" /\ v.items = {}

\* C21: in the document written or printed, a directory has no size_bytes
\* key, a file has no children key, and no key of any node has an empty
\* value (None, an empty description, an empty children list).
C21_NoEmptyFieldEmitted ==
    output.to # "none" =>
        \A n \in Nodes(tree) :
            LET d == output.tree[n]
            IN  /\ tree.type[n] = "directory" => "size_bytes" \notin DOMAIN d
                /\ tree.type[n] = "file" => "children" \notin DOMAIN d
                /\ \A k \in DOMAIN d : ~IsEmptyField(k, d[k])

\* the part of C21 that holds: unset (None) fields are omitted, so a
\* directory has no size_bytes key and a file has no children key
C21_UnsetFieldsOmitted ==
    output.to # "none" =>
        \A n \in Nodes(tree) :
            LET d == output.tree[n]
            IN  /\ tree.type[n] = "directory" => "size_bytes" \notin DOMAIN d
                /\ tree.type[n] = "file" => "children" \notin DOMAIN d
                /\ \A k \in DOMAIN d : d[k].t # "none"

\* C22: a file whose open() fails with OSError is, once describe_files_batch
\* has classified it, marked as a read error (skip_reason "encoding_error",
\* the read-error placeholder), never as binary content.
C22_OSErrorIsReadError ==
    \A f \in Files(tree) :
        tree.kind[f] = "unopenable" /\ skipped[f] # None =>
            /\ skipped[f] = True
            /\ skip_reason[f] = Str(<<"encoding_error">>)
            /\ desc[f] \in {BatchReadErrorPlaceholder, SingleReadErrorPlaceholder}

\* C23: every backoff sleep of a _call_llm invocation follows a failed
\* request and lasts 5 * 2^k seconds when the request of attempt k was
\* rate-limited and 2^k seconds when it hit another API error; between a
\* failed request and the next request there is exactly one such sleep
\* (SpecCall).
C23_BackoffDelays ==
    /\ \A i \in 1..Len(call.sleeps) :
          LET k == call.sleeps[i].attempt
          IN  /\ k + 1 \in 1..Len(call.requests)
              /\ call.requests[k + 1].kind = "exc"
              /\ call.sleeps[i].wait =
                    IF call.requests[k + 1].exc = "RateLimitError"
                    THEN 5 * 2^k ELSE 2^k
    /\ \A r \in 2..Len(call.requests) :
          Cardinality({ i \in 1..Len(call.sleeps) :
                          call.sleeps[i].attempt = r - 2 }) = 1

\* a rate limit at attempt 0, a timeout at attempt 1 and a rate limit at
\* attempt 2 have been slept on for 5, 2 and 20 seconds
C23_Witness ==
    /\ Len(call.requests) = 3
    /\ call.requests[1].exc = "RateLimitError"
    /\ call.requests[2].exc = "APITimeoutError"
    /\ call.requests[3].exc = "RateLimitError"
    /\ call.sleeps = << [attempt |-> 0, wait |-> 5],
                        [attempt |-> 1, wait |-> 2],
                        [attempt |-> 2, wait |-> 20] >>

\* C24: the sequence walk_bottom_up yields holds every directory of the
\* tree exactly once and no file, in order of depth from the deepest
\* directories down to the root, which comes last (SpecWalk).
C24_DirectoriesOnceByDepth ==
    pc = "yield" =>
        /\ \A i \in 1..Len(order) : tree.type[order[i]] = "directory"
        /\ \A d \in Dirs(tree) :
              Cardinality({ i \in 1..Len(order) : order[i] = d }) = 1
        /\ \A i, j \in 1..Len(order) :
              i < j => Depth(tree, order[i]) >= Depth(tree, order[j])
        /\ Depth(tree, order[1]) =
              MaxOf({ Depth(tree, d) : d \in Dirs(tree) })
        /\ order[Len(order)] = 1

\* the walk of a tree that has a file deeper than its deepest directory and
\* two directories at the same depth has been consumed to its end
C24_Witness ==
    /\ pc = "yield"
    /\ idx = Len(order)
    /\ \E f \in Files(tree) :
          \A d \in Dirs(tree) : Depth(tree, f) > Depth(tree, d)
    /\ \E a, b \in Dirs(tree) :
          a # b /\ Depth(tree, a) = Depth(tree, b)

\* a step made while a chunk is being processed writes no node outside it
ChunkFrameStep ==
    pc \in {"chunk", "fallback", "assign"} =>
        \A n \in Nodes(tree) :
            n \notin { CurrentChunk[i] : i \in 1..Len(CurrentChunk) } =>
                /\ desc'[n] = desc[n]
                /\ skipped'[n] = skipped[n]
                /\ skip_reason'[n] = skip_reason[n]

\* C25: a step of _describe_batch_chunk (the call, the fallback loop, the
\* assigning loop) leaves description, skipped and skip_reason as they are
\* on every node that is no item of the chunk being processed, whatever
\* keys the reply holds (Spec).
C25_ChunkFrame == [][ChunkFrameStep]_vars

\* the first chunk of a directory with more files than one chunk takes has
\* been assigned from a reply that also held a key that is no path of the
\* chunk; the file of the next chunk and the directory are as scanned
C25_Witness ==
    /\ pc = "assign"
    /\ ci = 1
    /\ cj > Len(CurrentChunk)
    /\ Len(batchable) > MAX_CHILDREN_PER_BATCH
    /\ descriptions.j = "dict"
    /\ order[idx] \in descriptions.keys
    /\ \A i \in 1..Len(CurrentChunk) : writes[CurrentChunk[i]] = <<"model">>
    /\ writes[order[idx]] = <<>>
    /\ \A i \in (MAX_CHILDREN_PER_BATCH + 1)..Len(batchable) :
          /\ writes[batchable[i].node] = <<>>
          /\ skipped[batchable[i].node] = None

\* C26: no backoff sleep of a _call_llm invocation is made by its last
\* permitted attempt, the one with index max_retries - 1, whether that
\* attempt was rate-limited or hit another API error (SpecCall).
C26_NoSleepAfterLastAttempt ==
    \A i \in 1..Len(call.sleeps) :
        call.sleeps[i].attempt < call.max_retries - 1

\* the part of C26 that holds: a last attempt that hit an API error other
\* than a rate limit raises without a sleep
C26_NoSleepAfterLastAPIError ==
    \A i \in 1..Len(call.sleeps) :
        call.sleeps[i].attempt = call.max_retries - 1 =>
            call.requests[call.max_retries].exc = "RateLimitError"

\* the _call_llm invocations logged for the chunk that starts at i: its
\* batch call and the single-file calls for its items
CallsForChunk(i) ==
    LET nodes == { ChunkAt(batchable, i)[k].node :
                     k \in 1..Len(ChunkAt(batchable, i)) }
    IN  { c \in 1..Len(calls) :
            /\ calls[c].prompt.kind \in {"batch", "single"}
            /\ \A k \in 1..Len(calls[c].prompt.items) :
                  calls[c].prompt.items[k].node \in nodes }

\* an invocation issues at most max_retries requests, and a chunk of k
\* files causes at most 1 + k invocations
CallsBounded ==
    /\ Len(call.requests) <= call.max_retries
    /\ \A i \in ChunkStarts :
          Cardinality(CallsForChunk(i)) <= 1 + Len(ChunkAt(batchable, i))

\* C27: every run of the pipeline comes to an end, main having returned or
\* an exception having left it, and every _call_llm invocation returns or
\* raises; no invocation issues more than max_retries requests and no chunk
\* of k files causes more than 1 + k invocations (SpecLive).
C27_Terminates == <>Terminated /\ []CallsBounded

\* a run has ended with the document written after the chunk of the root
\* directory caused 1 + k invocations: its batch call and, the reply not
\* being usable, one call for each of its k files
C27_Witness ==
    /\ pc = "done"
    /\ output.to = "file"
    /\ \E i \in ChunkStarts :
          /\ Len(ChunkAt(batchable, i)) >= 2
          /\ Cardinality(CallsForChunk(i)) = 1 + Len(ChunkAt(batchable, i))

\* C28: when a run_describedir has returned, every path an event handler
\* recorded while it was in progress is in changed_files as it left it
\* (SpecWatch).
C28_ChangeNotLost ==
    \A t \in 1..Len(timers) :
        timers[t].state \in {"done", "failed"} =>
            timers[t].during \subseteq timers[t].left


=============================================================================
